---- MODULE Spec2Model ----
(***************************************************************************)
(* Centralized License Service: the request handlers of licenses/views     *)
(* over the relational store of licenses/models.py.                        *)
(*                                                                         *)
(* Every handler runs in its own request thread.  A handler is a sequence  *)
(* of store statements; each statement is one step of the model, so the    *)
(* statements of concurrent requests interleave.  The store is            *)
(* read-committed: a statement reads the committed rows plus the rows its  *)
(* own open transaction has written, a write inside transaction.atomic()   *)
(* becomes visible to the others at commit, and a write that meets a       *)
(* unique constraint or a row held by another open transaction waits for   *)
(* that transaction to end.  Leaving a `with transaction.atomic()` block   *)
(* with `return` commits; leaving it with an exception rolls back.         *)
(***************************************************************************)
EXTENDS Integers, Sequences, FiniteSets, TLC

(* ------------------------------ bounds -------------------------------- *)

\* Request threads.
NProcs == 2
\* Requests started in one behaviour of interleaved threads.
MaxRequests == 3
\* Requests started in one behaviour of a single thread.
MaxSeqRequests == 4
\* Entries in the products list of one provision call.
MaxProducts == 2
\* The clock runs from 0 to MaxTime.
MaxTime == 2
\* Requests started in one behaviour of the three-instance client.
MaxScenarioRequests == 6
\* Provision calls in a run of concurrent key creation.
MaxKeyRequests == 2
\* Requests started in one behaviour of all the handlers together.
MaxAllRequests == 2

(* ------------------------- program constants -------------------------- *)

\* null=True columns (expiration_date, max_seats, deactivated_at) and absent
\* response fields hold NULL.
NULL == -1

\* ProvisionLicenseView._generate_unique_key: range(10).
MaxKeyAttempts == 10

\* LicenseStatus.
VALID == "valid"
SUSPENDED == "suspended"
CANCELLED == "cancelled"
LicenseStatus == {VALID, SUSPENDED, CANCELLED}

Procs == 1..NProcs

(* --------------------------- fixed catalogue -------------------------- *)

\* Brand and Product rows are made by brand onboarding, not by the handlers.
Brand == {"b1", "b2"}

\* Product: unique_together (brand, slug); is_active gates provisioning.
\* Brand b1 sells two products; b2 has withdrawn its only one, and has no
\* product called addon.
Product ==
  { [id |-> 1, brand |-> "b1", slug |-> "acme",  is_active |-> TRUE],
    [id |-> 2, brand |-> "b1", slug |-> "addon", is_active |-> TRUE],
    [id |-> 3, brand |-> "b2", slug |-> "acme",  is_active |-> FALSE] }

Slugs == {"acme", "addon"}
Emails == {"e1"}
Instances == {"A", "B"}
\* The strings generate_license_key can draw (utils.py), cut to two.
KeySpace == {"K1", "K2"}

ProductById(pid) == CHOOSE p \in Product : p.id = pid

(* ------------------------------- state -------------------------------- *)

VARIABLES
  license_keys,  \* LicenseKey rows  [id, key, brand, customer_email]
  licenses,      \* License rows     [id, license_key, product, status,
                 \*                   expiration_date, max_seats]
  activations,   \* Activation rows  [id, license, instance_id, is_active,
                 \*                   deactivated_at]
  now,           \* timezone.now()
  pc,            \* per thread: the statement it is about to run
  req,           \* per thread: the request it serves
  loc,           \* per thread: the handler's local variables
  tx,            \* per thread: rows written by its open transaction
  resp,          \* per thread: the response of its last finished request
  nreq           \* requests started so far

vars == <<license_keys, licenses, activations, now, pc, req, loc, tx, resp, nreq>>
store == <<license_keys, licenses, activations>>

NoReq == [op |-> "none"]
NoLoc == [none |-> TRUE]
NoTx == [keys |-> {}, lics |-> {}, acts |-> {}]
NoResp == [code |-> 0, body |-> "none", id |-> NULL, remaining |-> NULL,
           license_key |-> "", created |-> FALSE, licenses |-> {},
           report |-> {}]

Response(code, body) == [NoResp EXCEPT !.code = code, !.body = body]

MaxOf(S) == IF S = {} THEN 0 ELSE CHOOSE x \in S : \A y \in S : y <= x

\* A fresh primary key (uuid.uuid4): unused by any committed or pending row.
NewId(committed, field) ==
  1 + MaxOf({r.id : r \in committed} \cup
            UNION {{r.id : r \in tx[q][field]} : q \in Procs})

\* Threads whose request is in flight.
InFlight == {q \in Procs : pc[q] # "idle"}

\* What is remembered of a finished request: all but the products list.
Kept(r) ==
  IF r.op = "provision" THEN [r EXCEPT !.products_data = <<>>] ELSE r

\* The request repeats the one this thread served last, which succeeded.
Repeats(p, request) ==
  /\ resp[p].code \in {200, 201}
  /\ \A f \in DOMAIN request :
       f \in DOMAIN req[p] /\ req[p][f] = Kept(request)[f]

\* A request starts: an idle thread takes it, and the thread's last response
\* is dropped.  The threads are interchangeable workers, so the request goes
\* to the first idle one.
Begin(p, first, request) ==
  /\ pc[p] = "idle"
  /\ \A q \in Procs : pc[q] = "idle" => p <= q
  /\ nreq' = nreq + 1
  /\ pc' = [pc EXCEPT ![p] = first]
  /\ req' = [req EXCEPT ![p] = request @@ [conc |-> InFlight,
                                            repeat |-> Repeats(p, request)]]
  /\ loc' = [loc EXCEPT ![p] = NoLoc]
  /\ resp' = [resp EXCEPT ![p] = NoResp]
  /\ UNCHANGED <<tx, now>>

\* The handler returns `r`; the request is remembered beside the response.
Finish(p, r) ==
  /\ pc' = [pc EXCEPT ![p] = "idle"]
  /\ resp' = [resp EXCEPT ![p] = r]
  /\ req' = [req EXCEPT ![p] = Kept(@)]
  /\ loc' = [loc EXCEPT ![p] = NoLoc]
  /\ tx' = [tx EXCEPT ![p] = NoTx]
  /\ UNCHANGED <<nreq, now>>

\* The handler moves on to statement `next` with locals `l`.
Goto(p, next, l) ==
  /\ pc' = [pc EXCEPT ![p] = next]
  /\ loc' = [loc EXCEPT ![p] = l]
  /\ UNCHANGED <<req, resp, nreq, now>>

(* ------------------------------ models.py ----------------------------- *)

\* The property without its test of the expiration date.
is_valid_unexpiring(lic) == lic.status = VALID

\* The property with a License expiring at the instant it expires.
is_valid_strict(lic) ==
  /\ lic.status = VALID
  /\ (lic.expiration_date = NULL \/ lic.expiration_date > now)

\* License.is_valid.  `if self.expiration_date` is false for None.
is_valid(lic) ==
  IF lic.status # VALID THEN FALSE
  ELSE IF lic.expiration_date # NULL /\ lic.expiration_date < now THEN FALSE
  ELSE TRUE

\* Python truthiness of an optional integer: None and 0 are false.
Truthy(n) == n # NULL /\ n # 0

\* The unique index left out of Activation.Meta.
ActivationUniqueClash_none(lic_id, inst, active, self_id) == FALSE

\* Activation.Meta.unique_together = [license, instance_id, is_active]:
\* would a row with these three values collide with a committed row other
\* than `self_id`?
ActivationUniqueClash(lic_id, inst, active, self_id) ==
  \E a \in activations :
    /\ a.id # self_id
    /\ a.license = lic_id
    /\ a.instance_id = inst
    /\ a.is_active = active

(* --------------------- product_views.py: activate --------------------- *)

\* License.objects.filter(license_key=lk, product__slug=slug,
\*                        product__is_active=True)
LicensesFor(lk_id, slug) ==
  {l \in licenses :
     /\ l.license_key = lk_id
     /\ ProductById(l.product).slug = slug
     /\ ProductById(l.product).is_active}

\* Activation.objects.filter(license=lic, is_active=True), as seen by p:
\* the committed rows, with the row p's open transaction has updated.
ActiveSeenBy(p, lic_id) ==
  {a \in activations :
     /\ a.license = lic_id
     /\ a.is_active
     /\ a.id \notin {u.id : u \in tx[p].acts}}

\* An activate request for one of the instances `insts`.  request.user of
\* the product API is an existing LicenseKey row.
ActivateRequest(p, insts) ==
  \E lk \in license_keys, inst \in insts, slug \in Slugs :
    /\ Begin(p, "act_resolve",
             [op |-> "activate", lk |-> lk.id, instance_id |-> inst,
              product_slug |-> slug])
    /\ UNCHANGED store

StartActivate(p) == ActivateRequest(p, Instances)

\* lines 59-75: resolve the license, outside the transaction.
ActResolve(p) ==
  /\ pc[p] = "act_resolve"
  /\ UNCHANGED store
  /\ LET found == LicensesFor(req[p].lk, req[p].product_slug) IN
     IF found = {}
     THEN Finish(p, Response(404, "not_found"))
     ELSE \E license_obj \in found :
            IF ~is_valid(license_obj)
            THEN Finish(p, Response(400, "invalid"))
            ELSE /\ Goto(p, "act_existing", [license_obj |-> license_obj])
                 /\ UNCHANGED tx

\* The handler without its lookup of the existing activation.
ActExisting_skipped(p) ==
  /\ pc[p] = "act_existing"
  /\ UNCHANGED <<store, tx>>
  /\ Goto(p, "act_count", loc[p])

\* lines 77-91: the existing active activation of this instance.
ActExisting(p) ==
  /\ pc[p] = "act_existing"
  /\ UNCHANGED store
  /\ LET found == {a \in ActiveSeenBy(p, loc[p].license_obj.id) :
                     a.instance_id = req[p].instance_id} IN
     IF found # {}
     THEN \E existing \in found :
            Finish(p, [Response(200, "already") EXCEPT !.id = existing.id])
     ELSE /\ Goto(p, "act_count", loc[p])
          /\ UNCHANGED tx

\* A seat-limit test that lets one seat too many through.
SeatLimitReached_late(max_seats, active_count) ==
  Truthy(max_seats) /\ active_count > max_seats

\* The seat-limit test of line 98.
SeatLimitReached(max_seats, active_count) ==
  Truthy(max_seats) /\ active_count >= max_seats

\* lines 93-102: count the active activations, test the seat limit.
ActCount(p) ==
  /\ pc[p] = "act_count"
  /\ UNCHANGED store
  /\ LET active_count == Cardinality(ActiveSeenBy(p, loc[p].license_obj.id)) IN
     IF SeatLimitReached(loc[p].license_obj.max_seats, active_count)
     THEN Finish(p, Response(403, "seat_limit"))
     ELSE /\ Goto(p, "act_create", loc[p] @@ [active_count |-> active_count])
          /\ UNCHANGED tx

\* The row Activation.objects.create writes (lines 104-108).
NewActivation(lic_id, inst) ==
  [id |-> NewId(activations, "acts"), license |-> lic_id, instance_id |-> inst,
   is_active |-> TRUE, deactivated_at |-> NULL]

\* Another open transaction holds a row of (license, instance): the write
\* waits for it to end.
RowHeldByOther(p, lic_id, inst) ==
  \E q \in Procs \ {p} : \E u \in tx[q].acts :
    u.license = lic_id /\ u.instance_id = inst

\* lines 104-131: create the activation and commit; IntegrityError is caught
\* by `except Exception` and answered 500.
ActCreate(p) ==
  /\ pc[p] = "act_create"
  /\ ~RowHeldByOther(p, loc[p].license_obj.id, req[p].instance_id)
  /\ UNCHANGED <<license_keys, licenses>>
  /\ LET lic == loc[p].license_obj
         activation == NewActivation(lic.id, req[p].instance_id)
         remaining == IF Truthy(lic.max_seats)
                      THEN lic.max_seats - loc[p].active_count - 1
                      ELSE NULL
     IN
     IF ActivationUniqueClash(lic.id, req[p].instance_id, TRUE, NULL)
     THEN /\ UNCHANGED activations
          /\ Finish(p, Response(500, "error"))
     ELSE /\ activations' = activations \cup {activation}
          /\ Finish(p, [Response(201, "activated") EXCEPT
                          !.id = activation.id, !.remaining = remaining])

(* -------------------- product_views.py: deactivate -------------------- *)

\* A deactivate request for one of the instances `insts`.
DeactivateRequest(p, insts) ==
  \E lk \in license_keys, inst \in insts, slug \in Slugs :
    /\ Begin(p, "deact_resolve",
             [op |-> "deactivate", lk |-> lk.id, instance_id |-> inst,
              product_slug |-> slug])
    /\ UNCHANGED store

StartDeactivate(p) == DeactivateRequest(p, Instances)

\* lines 228-238.
DeactResolve(p) ==
  /\ pc[p] = "deact_resolve"
  /\ UNCHANGED store
  /\ LET found == LicensesFor(req[p].lk, req[p].product_slug) IN
     IF found = {}
     THEN Finish(p, Response(404, "not_found"))
     ELSE \E lic \in found :
            /\ Goto(p, "deact_find", [lic |-> lic])
            /\ UNCHANGED tx

\* A handler that answers success when there is nothing to deactivate.
DeactFind_lenient(p) ==
  /\ pc[p] = "deact_find"
  /\ UNCHANGED store
  /\ LET found == {a \in ActiveSeenBy(p, loc[p].lic.id) :
                     a.instance_id = req[p].instance_id} IN
     IF found = {}
     THEN Finish(p, Response(200, "deactivated"))
     ELSE \E act \in found :
            /\ Goto(p, "deact_update", loc[p] @@ [act |-> act.id])
            /\ UNCHANGED tx

\* lines 240-251.
DeactFind(p) ==
  /\ pc[p] = "deact_find"
  /\ UNCHANGED store
  /\ LET found == {a \in ActiveSeenBy(p, loc[p].lic.id) :
                     a.instance_id = req[p].instance_id} IN
     IF found = {}
     THEN Finish(p, Response(404, "not_found"))
     ELSE \E act \in found :
            /\ Goto(p, "deact_update", loc[p] @@ [act |-> act.id])
            /\ UNCHANGED tx

\* An update that leaves deactivated_at empty.
Deactivated_unstamped(a, t) == [a EXCEPT !.is_active = FALSE]

\* The values lines 253-256 write into the row.
Deactivated(a, t) == [a EXCEPT !.is_active = FALSE, !.deactivated_at = t]

\* lines 253-256: UPDATE ... WHERE id = act.id, inside the transaction.  The
\* row is locked until commit; the unique index refuses a second inactive
\* row of the same (license, instance_id), and the IntegrityError is answered
\* 500 with the transaction rolled back.
DeactUpdate(p) ==
  /\ pc[p] = "deact_update"
  /\ UNCHANGED store
  /\ LET row == CHOOSE a \in activations : a.id = loc[p].act IN
     /\ ~RowHeldByOther(p, row.license, row.instance_id)
     /\ IF ActivationUniqueClash(row.license, row.instance_id, FALSE, row.id)
        THEN Finish(p, Response(500, "error"))
        ELSE /\ tx' = [tx EXCEPT ![p].acts = {Deactivated(row, now)}]
             /\ Goto(p, "deact_count", loc[p])

\* lines 258-265.
RemainingAfterDeactivate(max_seats, active) ==
  IF Truthy(max_seats) THEN max_seats - active ELSE NULL

\* lines 258-261: count the active activations inside the transaction.
DeactCount(p) ==
  /\ pc[p] = "deact_count"
  /\ UNCHANGED <<store, tx>>
  /\ Goto(p, "deact_commit",
          loc[p] @@ [active |-> Cardinality(ActiveSeenBy(p, loc[p].lic.id))])

\* A handler that deletes the row instead of keeping it inactive.
DeactCommit_deleting(p) ==
  /\ pc[p] = "deact_commit"
  /\ UNCHANGED <<license_keys, licenses>>
  /\ activations' =
       {a \in activations : a.id \notin {u.id : u \in tx[p].acts}}
  /\ Finish(p, [Response(200, "deactivated") EXCEPT !.id = loc[p].act])

\* lines 263-276: the response; leaving the block commits the update.
DeactCommit(p) ==
  /\ pc[p] = "deact_commit"
  /\ UNCHANGED <<license_keys, licenses>>
  /\ activations' =
       {a \in activations : a.id \notin {u.id : u \in tx[p].acts}}
         \cup tx[p].acts
  /\ Finish(p, [Response(200, "deactivated") EXCEPT
                  !.id = loc[p].act,
                  !.remaining =
                     RemainingAfterDeactivate(loc[p].lic.max_seats, loc[p].active)])

(* ------------------ brand_views.py: update_lifecycle ------------------ *)

\* The datetimes a renew request can carry (None when the field is absent).
RenewDates == {NULL, 1}
Actions == {"renew", "suspend", "resume", "cancel"}
\* A primary key no License row has.
UnknownId == 0

StartLifecycle(p) ==
  \E brand \in Brand, action \in Actions, exp \in RenewDates,
     license_id \in {l.id : l \in licenses} \cup {UnknownId} :
    /\ action # "renew" => exp = NULL
    /\ license_id = UnknownId => brand = "b1" /\ action = "cancel"
    /\ Begin(p, "life_read",
             [op |-> "lifecycle", brand |-> brand, license_id |-> license_id,
              action |-> action, expiration_date |-> exp])
    /\ UNCHANGED store

\* The handler without its test of the owning brand.
LifeRead_anyBrand(p) ==
  /\ pc[p] = "life_read"
  /\ UNCHANGED store
  /\ LET found == {l \in licenses : l.id = req[p].license_id} IN
     IF found = {}
     THEN Finish(p, Response(404, "not_found"))
     ELSE /\ Goto(p, "life_patch", [lic |-> CHOOSE l \in found : TRUE])
          /\ UNCHANGED tx

\* lines 439-453: load the License, check the owning brand.
LifeRead(p) ==
  /\ pc[p] = "life_read"
  /\ UNCHANGED store
  /\ LET found == {l \in licenses : l.id = req[p].license_id} IN
     IF found = {}
     THEN Finish(p, Response(404, "not_found"))
     ELSE LET lic == CHOOSE l \in found : TRUE
              key == CHOOSE k \in license_keys : k.id = lic.license_key
          IN IF key.brand # req[p].brand
             THEN Finish(p, Response(403, "forbidden"))
             ELSE /\ Goto(p, "life_patch", [lic |-> lic])
                  /\ UNCHANGED tx

\* lines 457-494 on the loaded object `lic`: what the action makes of it, and
\* whether the handler saves it (ok) or answers 400.
LifeRenew(lic, exp) ==
  [ok |-> TRUE,
   lic |-> [lic EXCEPT !.expiration_date = exp,
                       !.status = IF @ = SUSPENDED THEN VALID ELSE @]]

\* The handler without its test of the cancelled status.
LifeSuspend_unguarded(lic) ==
  [ok |-> TRUE, lic |-> [lic EXCEPT !.status = SUSPENDED]]

\* lines 471-479.
LifeSuspend(lic) ==
  IF lic.status = CANCELLED
  THEN [ok |-> FALSE, lic |-> lic]
  ELSE [ok |-> TRUE, lic |-> [lic EXCEPT !.status = SUSPENDED]]

\* The handler without its test of the suspended status.
LifeResume_unguarded(lic) ==
  [ok |-> TRUE, lic |-> [lic EXCEPT !.status = VALID]]

\* lines 481-489.
LifeResume(lic) ==
  IF lic.status # SUSPENDED
  THEN [ok |-> FALSE, lic |-> lic]
  ELSE [ok |-> TRUE, lic |-> [lic EXCEPT !.status = VALID]]

\* A handler that refuses to cancel twice.
LifeCancel_once(lic) ==
  IF lic.status = CANCELLED
  THEN [ok |-> FALSE, lic |-> lic]
  ELSE [ok |-> TRUE, lic |-> [lic EXCEPT !.status = CANCELLED]]

\* lines 491-494.
LifeCancel(lic) ==
  [ok |-> TRUE, lic |-> [lic EXCEPT !.status = CANCELLED]]

LifeAction(lic, action, exp) ==
  CASE action = "renew"   -> LifeRenew(lic, exp)
    [] action = "suspend" -> LifeSuspend(lic)
    [] action = "resume"  -> LifeResume(lic)
    [] action = "cancel"  -> LifeCancel(lic)

\* lic.save(): UPDATE of every column of the row with lic's primary key.
Save(rows, obj) == {r \in rows : r.id # obj.id} \cup {obj}

\* A handler that also deactivates the seats of a License it stops.
LifePatch_cascading(p) ==
  /\ pc[p] = "life_patch"
  /\ UNCHANGED license_keys
  /\ LET r == LifeAction(loc[p].lic, req[p].action, req[p].expiration_date) IN
     IF r.ok
     THEN /\ licenses' = Save(licenses, r.lic)
          /\ activations' =
               {IF a.license = r.lic.id /\ a.is_active /\ r.lic.status # VALID
                THEN Deactivated(a, now) ELSE a : a \in activations}
          /\ Finish(p, [Response(200, "updated") EXCEPT !.id = r.lic.id])
     ELSE /\ UNCHANGED <<licenses, activations>>
          /\ Finish(p, Response(400, "invalid"))

\* lines 455-503: apply the action to the object loaded by LifeRead, save it
\* and commit.
LifePatch(p) ==
  /\ pc[p] = "life_patch"
  /\ UNCHANGED <<license_keys, activations>>
  /\ LET r == LifeAction(loc[p].lic, req[p].action, req[p].expiration_date) IN
     IF r.ok
     THEN /\ licenses' = Save(licenses, r.lic)
          /\ Finish(p, [Response(200, "updated") EXCEPT !.id = r.lic.id])
     ELSE /\ UNCHANGED licenses
          /\ Finish(p, Response(400, "invalid"))

(* --------------------- brand_views.py: provision ---------------------- *)

\* An expiration_date string of a request: its form and the instant it names.
\* datetime.fromisoformat raises ValueError on the malformed ones.
NoDate == [form |-> "none", t |-> 0]
DateZ == [form |-> "Z", t |-> 1]
DateMalformed == [form |-> "malformed", t |-> 0]

\* lines 137-157: None stays None; a string ending in Z, one with an offset
\* and a naive one all parse to the UTC instant they name.
ParseExpiration(d) ==
  IF d.form = "none" THEN [ok |-> TRUE, value |-> NULL]
  ELSE IF d.form \in {"Z", "offset", "naive"} THEN [ok |-> TRUE, value |-> d.t]
  ELSE [ok |-> FALSE, value |-> NULL]

\* The entries a products list is made of.
ProductEntries ==
  { [slug |-> "acme",  expiration_date |-> DateZ,         max_seats |-> 1],
    [slug |-> "acme",  expiration_date |-> DateMalformed, max_seats |-> NULL],
    [slug |-> "addon", expiration_date |-> NoDate,        max_seats |-> NULL] }

\* ProvisionLicenseRequestSerializer: products has min_length 1.
ProductLists == UNION {[1..n -> ProductEntries] : n \in 1..MaxProducts}

\* A provision request whose products list is one of `lists`.
ProvisionRequest(p, lists) ==
  \E brand \in Brand, customer_email \in Emails, products_data \in lists :
    /\ Begin(p, "prov_generate",
             [op |-> "provision", brand |-> brand,
              customer_email |-> customer_email, products_data |-> products_data])
    /\ UNCHANGED store

StartProvision(p) == ProvisionRequest(p, ProductLists)

\* LicenseKey.objects.filter(key=key).exists()
KeyExists(key) == \E k \in license_keys : k.key = key

\* generate_license_key (utils.py) draws from secrets.choice: the draws of
\* one _generate_unique_key call, one per attempt.  The sequences tried are
\* those that repeat one key and switch to another at the first, the second
\* or the last attempt.
KeyDraws ==
  {[i \in 1..MaxKeyAttempts |-> IF i < n THEN a ELSE b] :
     n \in {1, 2, MaxKeyAttempts}, a \in KeySpace, b \in KeySpace}

\* A generator that returns its first candidate unchecked.
GenerateFrom_unchecked(draws, attempt) == draws[1]

\* _generate_unique_key (lines 190-196): the first drawn key no LicenseKey
\* has, or "" for the exception raised after the last attempt.
RECURSIVE GenerateFrom(_, _)
GenerateFrom(draws, attempt) ==
  IF attempt > MaxKeyAttempts THEN ""
  ELSE IF ~KeyExists(draws[attempt]) THEN draws[attempt]
  ELSE GenerateFrom(draws, attempt + 1)

_generate_unique_key(draws) == GenerateFrom(draws, 1)

\* The turns of the loop of lines 192-195 that a call with these draws makes.
RECURSIVE AttemptsFrom(_, _)
AttemptsFrom(draws, attempt) ==
  IF attempt > MaxKeyAttempts THEN attempt - 1
  ELSE IF ~KeyExists(draws[attempt]) THEN attempt
  ELSE AttemptsFrom(draws, attempt + 1)

\* line 102: the `defaults` argument of get_or_create is evaluated before
\* the lookup, so a key is generated on every call.  The loop only reads,
\* and LicenseKey rows are never removed: it is one step.
ProvGenerate(p) ==
  /\ pc[p] = "prov_generate"
  /\ UNCHANGED store
  /\ \E draws \in KeyDraws :
       LET key == _generate_unique_key(draws) IN
       IF key = ""
       THEN Finish(p, Response(500, "error"))
       ELSE /\ Goto(p, "prov_get_or_create", [key |-> key])
            /\ UNCHANGED tx

\* LicenseKey rows of (brand, customer_email) that p's statement sees.
KeysOf(p, brand, customer_email) ==
  {k \in license_keys \cup tx[p].keys :
     k.brand = brand /\ k.customer_email = customer_email}

\* A key column without the unique index.
KeyHeldByOther_never(p, key) == FALSE

\* Another open transaction has inserted a LicenseKey with this key string:
\* the unique index makes the insert wait for it.
KeyHeldByOther(p, key) ==
  \E q \in Procs \ {p} : \E k \in tx[q].keys : k.key = key

\* A handler that creates a LicenseKey without looking for one.
ProvGetOrCreate_create(p) ==
  /\ pc[p] = "prov_get_or_create"
  /\ UNCHANGED store
  /\ LET row == [id |-> NewId(license_keys, "keys"), key |-> loc[p].key,
                 brand |-> req[p].brand,
                 customer_email |-> req[p].customer_email]
     IN /\ tx' = [tx EXCEPT ![p].keys = {row}]
        /\ Goto(p, "prov_product",
                [license_key_obj |-> row, created |-> TRUE, i |-> 1,
                 created_licenses |-> {}])

\* lines 98-103: get_or_create(brand, customer_email, defaults={key}).  One
\* row: reuse it.  Several: MultipleObjectsReturned.  None: insert; the unique
\* index on key raises IntegrityError, get_or_create looks again, finds none
\* and re-raises.  Every exception leaves the atomic block rolled back, 500.
ProvGetOrCreate(p) ==
  /\ pc[p] = "prov_get_or_create"
  /\ UNCHANGED store
  /\ LET found == KeysOf(p, req[p].brand, req[p].customer_email)
         row == [id |-> NewId(license_keys, "keys"), key |-> loc[p].key,
                 brand |-> req[p].brand,
                 customer_email |-> req[p].customer_email]
     IN
     IF Cardinality(found) = 1
     THEN /\ Goto(p, "prov_product",
                  [license_key_obj |-> CHOOSE k \in found : TRUE,
                   created |-> FALSE, i |-> 1, created_licenses |-> {}])
          /\ UNCHANGED tx
     ELSE IF Cardinality(found) > 1
     THEN Finish(p, Response(500, "error"))
     ELSE /\ ~KeyHeldByOther(p, loc[p].key)
          /\ IF KeyExists(loc[p].key)
             THEN Finish(p, Response(500, "error"))
             ELSE /\ tx' = [tx EXCEPT ![p].keys = {row}]
                  /\ Goto(p, "prov_product",
                          [license_key_obj |-> row, created |-> TRUE, i |-> 1,
                           created_licenses |-> {}])

\* A lookup by slug alone.
ActiveProduct_anyBrand(brand, slug) == {x \in Product : x.slug = slug}

\* Product.objects.get(brand=brand, slug=slug, is_active=True)
ActiveProduct(brand, slug) ==
  {x \in Product : x.brand = brand /\ x.slug = slug /\ x.is_active}

\* A lookup that never finds a License.
LicensesOf_none(p, lk_id, product_id) == {}

\* License.objects.filter(license_key=lk, product=product), as p sees it.
LicensesOf(p, lk_id, product_id) ==
  {l \in licenses \cup tx[p].lics :
     l.license_key = lk_id /\ l.product = product_id}

\* A commit that also lifts the seat limit of the Licenses in the store.
Commit_unlimited(p) ==
  /\ license_keys' = license_keys \cup tx[p].keys
  /\ licenses' = {[l EXCEPT !.max_seats = NULL] : l \in licenses} \cup tx[p].lics
  /\ UNCHANGED activations

\* Leaving `with transaction.atomic()` without an exception commits the rows
\* the transaction has written.
Commit(p) ==
  /\ license_keys' = license_keys \cup tx[p].keys
  /\ licenses' = licenses \cup tx[p].lics
  /\ UNCHANGED activations

\* lines 106-166, one turn of the loop over products_data.  Each `return
\* Response(...)` leaves the atomic block normally.
ProvProduct(p) ==
  /\ pc[p] = "prov_product"
  /\ loc[p].i <= Len(req[p].products_data)
  /\ LET product_data == req[p].products_data[loc[p].i]
         lk == loc[p].license_key_obj
         products == ActiveProduct(req[p].brand, product_data.slug)
         exp_date == ParseExpiration(product_data.expiration_date)
     IN
     IF product_data.slug = ""
     THEN Commit(p) /\ Finish(p, Response(400, "invalid"))
     ELSE IF products = {}
     THEN Commit(p) /\ Finish(p, Response(404, "not_found"))
     ELSE LET product == CHOOSE x \in products : TRUE
              found == LicensesOf(p, lk.id, product.id)
              new_license ==
                [id |-> NewId(licenses, "lics"), license_key |-> lk.id,
                 product |-> product.id, status |-> VALID,
                 expiration_date |-> exp_date.value,
                 max_seats |-> product_data.max_seats]
          IN
          IF found # {}
          THEN \E existing \in found :
                 /\ Goto(p, "prov_product",
                         [loc[p] EXCEPT !.i = @ + 1,
                                        !.created_licenses = @ \cup {existing.id}])
                 /\ UNCHANGED <<store, tx>>
          ELSE IF ~exp_date.ok
          THEN Commit(p) /\ Finish(p, Response(400, "invalid"))
          ELSE /\ tx' = [tx EXCEPT ![p].lics = @ \cup {new_license}]
               /\ Goto(p, "prov_product",
                       [loc[p] EXCEPT !.i = @ + 1,
                                      !.created_licenses = @ \cup {new_license.id}])
               /\ UNCHANGED store

\* lines 168-181: the loop is over; answer 201 and commit.
ProvReturn(p) ==
  /\ pc[p] = "prov_product"
  /\ loc[p].i > Len(req[p].products_data)
  /\ Commit(p)
  /\ Finish(p, [Response(201, "provisioned") EXCEPT
                  !.id = loc[p].license_key_obj.id,
                  !.license_key = loc[p].license_key_obj.key,
                  !.created = loc[p].created,
                  !.licenses = loc[p].created_licenses])

(* -------------------- brand_views.py: add_product --------------------- *)

\* AddProductToLicenseRequestSerializer: expiration_date arrives parsed,
\* max_seats is None or at least 1.
StartAddProduct(p) ==
  \E brand \in Brand, license_key \in KeySpace, product_slug \in Slugs :
    /\ Begin(p, "add_resolve",
             [op |-> "add_product", brand |-> brand, license_key |-> license_key,
              product_slug |-> product_slug, expiration_date |-> NULL,
              max_seats |-> 2])
    /\ UNCHANGED store

\* A handler without the duplicate check of lines 267-272.
AddResolve_unchecked(p) ==
  /\ pc[p] = "add_resolve"
  /\ UNCHANGED store
  /\ LET keys == {k \in license_keys :
                    k.key = req[p].license_key /\ k.brand = req[p].brand}
         products == ActiveProduct(req[p].brand, req[p].product_slug)
     IN
     IF keys = {} \/ products = {}
     THEN Finish(p, Response(404, "not_found"))
     ELSE /\ Goto(p, "add_create", [lk |-> CHOOSE k \in keys : TRUE,
                                    product |-> CHOOSE x \in products : TRUE])
          /\ UNCHANGED tx

\* A handler that looks the key up without the brand.
AddResolve_anyBrand(p) ==
  /\ pc[p] = "add_resolve"
  /\ UNCHANGED store
  /\ LET keys == {k \in license_keys : k.key = req[p].license_key}
         products == ActiveProduct(req[p].brand, req[p].product_slug)
     IN
     IF keys = {} \/ products = {}
     THEN Finish(p, Response(404, "not_found"))
     ELSE LET lk == CHOOSE k \in keys : TRUE
              product == CHOOSE x \in products : TRUE
          IN IF LicensesOf(p, lk.id, product.id) # {}
             THEN Finish(p, Response(400, "conflict"))
             ELSE /\ Goto(p, "add_create", [lk |-> lk, product |-> product])
                  /\ UNCHANGED tx

\* lines 245-272: the key of this brand, the active product, the duplicate
\* check.  No transaction is open: every statement commits by itself.
AddResolve(p) ==
  /\ pc[p] = "add_resolve"
  /\ UNCHANGED store
  /\ LET keys == {k \in license_keys :
                    k.key = req[p].license_key /\ k.brand = req[p].brand}
         products == ActiveProduct(req[p].brand, req[p].product_slug)
     IN
     IF keys = {} \/ products = {}
     THEN Finish(p, Response(404, "not_found"))
     ELSE LET lk == CHOOSE k \in keys : TRUE
              product == CHOOSE x \in products : TRUE
          IN IF LicensesOf(p, lk.id, product.id) # {}
             THEN Finish(p, Response(400, "conflict"))
             ELSE /\ Goto(p, "add_create", [lk |-> lk, product |-> product])
                  /\ UNCHANGED tx

\* lines 274-305: License.objects.create and the 201.
AddCreate(p) ==
  /\ pc[p] = "add_create"
  /\ UNCHANGED <<license_keys, activations>>
  /\ LET new_license ==
           [id |-> NewId(licenses, "lics"), license_key |-> loc[p].lk.id,
            product |-> loc[p].product.id, status |-> VALID,
            expiration_date |-> req[p].expiration_date,
            max_seats |-> req[p].max_seats]
     IN /\ licenses' = licenses \cup {new_license}
        /\ Finish(p, [Response(201, "added") EXCEPT
                        !.id = new_license.id,
                        !.license_key = loc[p].lk.key])

(* ------------------- product_views.py: check_status ------------------- *)

\* request.user of the product API is an existing LicenseKey row.
StartCheckStatus(p) ==
  \E lk \in license_keys :
    /\ Begin(p, "check_list", [op |-> "check_status", lk |-> lk.id])
    /\ UNCHANGED store

\* line 153, evaluated by the `for` of line 156: the Licenses of the key.
CheckList(p) ==
  /\ pc[p] = "check_list"
  /\ UNCHANGED <<store, tx>>
  /\ Goto(p, "check_count",
          [todo |-> {l \in licenses : l.license_key = req[p].lk},
           licenses_data |-> {}])

\* A report that takes max_seats = 0 for no limit.
StatusRemaining_truthy(max_seats, active_count) ==
  IF Truthy(max_seats)
  THEN (IF max_seats - active_count > 0 THEN max_seats - active_count ELSE 0)
  ELSE NULL

\* lines 161-163: `if lic.max_seats is not None`.
StatusRemaining(max_seats, active_count) ==
  IF max_seats # NULL
  THEN (IF max_seats - active_count > 0 THEN max_seats - active_count ELSE 0)
  ELSE NULL

\* lines 165-174: the entry of one License.
StatusEntry(lic, active_count, remaining) ==
  [license |-> lic.id, status |-> lic.status, is_valid |-> is_valid(lic),
   max_seats |-> lic.max_seats, active_seats |-> active_count,
   remaining_seats |-> remaining]

\* lines 156-174, one turn of the loop: one COUNT query.  The queryset has
\* no ordering.
CheckCount(p) ==
  /\ pc[p] = "check_count"
  /\ UNCHANGED <<store, tx>>
  /\ \E lic \in loc[p].todo :
       LET active_count == Cardinality(ActiveSeenBy(p, lic.id))
           remaining == StatusRemaining(lic.max_seats, active_count)
       IN Goto(p, "check_count",
               [todo |-> loc[p].todo \ {lic},
                licenses_data |-> loc[p].licenses_data
                                    \cup {StatusEntry(lic, active_count, remaining)}])

\* lines 176-181.
CheckReturn(p) ==
  /\ pc[p] = "check_count"
  /\ loc[p].todo = {}
  /\ UNCHANGED store
  /\ LET lk == CHOOSE k \in license_keys : k.id = req[p].lk IN
     Finish(p, [Response(200, "status") EXCEPT
                  !.license_key = lk.key,
                  !.report = loc[p].licenses_data])

(* ------------------- brand_views.py: list_by_email -------------------- *)

\* The email query parameter: absent or empty, a customer's, nobody's.
QueryEmails == {"", "e1", "e2", "e9"}

StartListByEmail(p) ==
  \E email \in QueryEmails :
    /\ Begin(p, "list_keys", [op |-> "list_by_email", email |-> email])
    /\ UNCHANGED store

\* lines 337-351: the parameter, then keys.exists().
ListKeys(p) ==
  /\ pc[p] = "list_keys"
  /\ UNCHANGED store
  /\ IF req[p].email = ""
     THEN Finish(p, Response(400, "invalid"))
     ELSE IF ~\E k \in license_keys : k.customer_email = req[p].email
     THEN Finish(p, Response(200, "listed"))
     ELSE /\ Goto(p, "list_fetch", NoLoc)
          /\ UNCHANGED tx

\* line 354: the keys of the email with their prefetched Licenses.
ListFetch(p) ==
  /\ pc[p] = "list_fetch"
  /\ UNCHANGED <<store, tx>>
  /\ LET keys == {k \in license_keys : k.customer_email = req[p].email} IN
     Goto(p, "list_count",
          [keys |-> keys,
           todo |-> {l \in licenses : l.license_key \in {k.id : k \in keys}},
           result |-> {}])

\* lines 358-360: `if lic.max_seats`.
ListRemaining(max_seats, active) ==
  IF Truthy(max_seats)
  THEN (IF max_seats - active > 0 THEN max_seats - active ELSE 0)
  ELSE NULL

\* lines 362-376: the entry of one License of `key`.
ListEntry(key, lic, active, remaining) ==
  [license |-> lic.id, license_key |-> key.key, brand |-> key.brand,
   status |-> lic.status, is_valid |-> is_valid(lic),
   max_seats |-> lic.max_seats, active_seats |-> active,
   remaining_seats |-> remaining]

\* lines 354-376, one turn of the inner loop: one COUNT query.
ListCount(p) ==
  /\ pc[p] = "list_count"
  /\ UNCHANGED <<store, tx>>
  /\ \E lic \in loc[p].todo :
       LET key == CHOOSE k \in loc[p].keys : k.id = lic.license_key
           active == Cardinality(ActiveSeenBy(p, lic.id))
           remaining == ListRemaining(lic.max_seats, active)
       IN Goto(p, "list_count",
               [loc[p] EXCEPT
                  !.todo = @ \ {lic},
                  !.result = @ \cup {ListEntry(key, lic, active, remaining)}])

\* lines 378-381.
ListReturn(p) ==
  /\ pc[p] = "list_count"
  /\ loc[p].todo = {}
  /\ UNCHANGED store
  /\ Finish(p, [Response(200, "listed") EXCEPT !.report = loc[p].result])

(* ----------------------- the seat engine's runs ----------------------- *)

\* One LicenseKey of brand b1 with one License of product acme, as provision
\* leaves them: status valid, any max_seats the request carried.
SeedKey == [id |-> 1, key |-> "K1", brand |-> "b1", customer_email |-> "e1"]
SeedSeats == {NULL, 0, 1, 2}
SeedLicense(max_seats) ==
  [id |-> 1, license_key |-> 1, product |-> 1, status |-> VALID,
   expiration_date |-> NULL, max_seats |-> max_seats]

IdleInit ==
  /\ now = 0
  /\ pc = [p \in Procs |-> "idle"]
  /\ req = [p \in Procs |-> NoReq]
  /\ loc = [p \in Procs |-> NoLoc]
  /\ tx = [p \in Procs |-> NoTx]
  /\ resp = [p \in Procs |-> NoResp]
  /\ nreq = 0

SeatInit ==
  /\ license_keys = {SeedKey}
  /\ \E m \in SeedSeats : licenses = {SeedLicense(m)}
  /\ activations = {}
  /\ IdleInit

\* The statements of the seat engine's handlers, for thread p.
SeatStep(p) ==
  \/ ActResolve(p)
  \/ ActExisting(p)
  \/ ActCount(p)
  \/ ActCreate(p)
  \/ DeactResolve(p)
  \/ DeactFind(p)
  \/ DeactUpdate(p)
  \/ DeactCount(p)
  \/ DeactCommit(p)

\* Requests of the product API served by interleaved threads.
SeatNext ==
  \E p \in Procs :
    \/ nreq < MaxRequests /\ StartActivate(p)
    \/ nreq < MaxRequests /\ StartDeactivate(p)
    \/ SeatStep(p)

SpecSeat == SeatInit /\ [][SeatNext]_vars

\* The same requests served one after the other by one thread.
SeatSeqNext ==
  \/ nreq < MaxSeqRequests /\ StartActivate(1)
  \/ nreq < MaxSeqRequests /\ StartDeactivate(1)
  \/ SeatStep(1)

SpecSeatSeq == SeatInit /\ [][SeatSeqNext]_vars

(* --------------------- the lifecycle engine's runs -------------------- *)

LifeInit ==
  /\ license_keys = {SeedKey}
  /\ licenses = {SeedLicense(NULL)}
  /\ activations = {}
  /\ IdleInit

LifeNext ==
  \E p \in Procs :
    \/ nreq < MaxRequests /\ StartLifecycle(p)
    \/ LifeRead(p)
    \/ LifePatch(p)

SpecLife == LifeInit /\ [][LifeNext]_vars

(* -------------------- the provisioning service's runs ----------------- *)

\* The store before the first provision call.
ProvInit ==
  /\ license_keys = {}
  /\ licenses = {}
  /\ activations = {}
  /\ IdleInit

ProvNext ==
  \E p \in Procs :
    \/ nreq < MaxRequests /\ StartProvision(p)
    \/ ProvGenerate(p)
    \/ ProvGetOrCreate(p)
    \/ ProvProduct(p)
    \/ ProvReturn(p)
    \/ nreq < MaxRequests /\ StartAddProduct(p)
    \/ AddResolve(p)
    \/ AddCreate(p)

SpecProv == ProvInit /\ [][ProvNext]_vars

\* The same requests served one after the other by one thread.
ProvSeqNext ==
  \/ nreq < MaxSeqRequests /\ StartProvision(1)
  \/ ProvGenerate(1)
  \/ ProvGetOrCreate(1)
  \/ ProvProduct(1)
  \/ ProvReturn(1)
  \/ nreq < MaxSeqRequests /\ StartAddProduct(1)
  \/ AddResolve(1)
  \/ AddCreate(1)

SpecProvSeq == ProvInit /\ [][ProvSeqNext]_vars

\* Concurrent provision calls with one product each: the calls that create
\* LicenseKeys.
SingleProductLists == [1..1 -> ProductEntries]

KeysNext ==
  \E p \in Procs :
    \/ nreq < MaxKeyRequests /\ ProvisionRequest(p, SingleProductLists)
    \/ ProvGenerate(p)
    \/ ProvGetOrCreate(p)
    \/ ProvProduct(p)
    \/ ProvReturn(p)

SpecKeys == ProvInit /\ [][KeysNext]_vars

(* ------------------------- add_product's runs ------------------------ *)

\* A LicenseKey of brand b2, from the time its product was on sale.
OtherKey == [id |-> 2, key |-> "K2", brand |-> "b2", customer_email |-> "e1"]

\* A LicenseKey of brand b1 that holds a License of acme, as one provision
\* call leaves it, beside a LicenseKey of brand b2.
AddInit ==
  /\ license_keys = {SeedKey, OtherKey}
  /\ licenses = {SeedLicense(1)}
  /\ activations = {}
  /\ IdleInit

AddNext ==
  \E p \in Procs :
    \/ nreq < MaxRequests /\ StartAddProduct(p)
    \/ AddResolve(p)
    \/ AddCreate(p)

SpecAdd == AddInit /\ [][AddNext]_vars

(* ---------------------- one client's runs ----------------------------- *)

\* timezone.now() moves on.
Tick ==
  /\ now < MaxTime
  /\ now' = now + 1
  /\ UNCHANGED <<store, pc, req, loc, tx, resp, nreq>>

\* Requests of the product API and update_lifecycle requests, served one
\* after the other while the clock runs.
OpsNext ==
  \/ nreq < MaxSeqRequests /\ StartActivate(1)
  \/ nreq < MaxSeqRequests /\ StartDeactivate(1)
  \/ nreq < MaxSeqRequests /\ StartLifecycle(1)
  \/ SeatStep(1)
  \/ LifeRead(1)
  \/ LifePatch(1)
  \/ Tick

SpecOps == SeatInit /\ [][OpsNext]_vars

(* ------------------------- the read-only views ----------------------- *)

\* A second LicenseKey of brand b1, of another customer.
ThirdKey == [id |-> 3, key |-> "K3", brand |-> "b1", customer_email |-> "e2"]

\* Customer e1 holds acme and addon of b1 and the withdrawn acme of b2;
\* customer e2 holds acme of b1.
StatusInit ==
  /\ license_keys = {SeedKey, OtherKey, ThirdKey}
  /\ \E m \in SeedSeats :
       licenses =
         { SeedLicense(m),
           [SeedLicense(1) EXCEPT !.id = 2, !.product = 2],
           [SeedLicense(2) EXCEPT !.id = 3, !.license_key = 2, !.product = 3],
           [SeedLicense(NULL) EXCEPT !.id = 4, !.license_key = 3] }
  /\ activations = {}
  /\ IdleInit

\* The statements of check_status and list_by_email, for thread p.
ViewStep(p) ==
  \/ CheckList(p)
  \/ CheckCount(p)
  \/ CheckReturn(p)
  \/ ListKeys(p)
  \/ ListFetch(p)
  \/ ListCount(p)
  \/ ListReturn(p)

\* Seat requests and the two views, served one after the other.
StatusNext ==
  \/ nreq < MaxSeqRequests /\ StartActivate(1)
  \/ nreq < MaxSeqRequests /\ StartDeactivate(1)
  \/ nreq < MaxSeqRequests /\ StartCheckStatus(1)
  \/ nreq < MaxSeqRequests /\ StartListByEmail(1)
  \/ SeatStep(1)
  \/ ViewStep(1)

SpecStatus == StatusInit /\ [][StatusNext]_vars

(* --------------------------- every handler --------------------------- *)

\* A LicenseKey of brand b1 with a License of acme for one seat; key K2 is
\* still free.
AllInit ==
  /\ license_keys = {SeedKey}
  /\ licenses = {SeedLicense(1)}
  /\ activations = {}
  /\ IdleInit

\* Requests to all seven handlers, served by interleaved threads.
AllNext ==
  \E p \in Procs :
    \/ nreq < MaxAllRequests /\ StartActivate(p)
    \/ nreq < MaxAllRequests /\ StartDeactivate(p)
    \/ nreq < MaxAllRequests /\ StartCheckStatus(p)
    \/ nreq < MaxAllRequests /\ StartListByEmail(p)
    \/ nreq < MaxAllRequests /\ StartLifecycle(p)
    \/ nreq < MaxAllRequests /\ ProvisionRequest(p, SingleProductLists)
    \/ nreq < MaxAllRequests /\ StartAddProduct(p)
    \/ SeatStep(p)
    \/ ViewStep(p)
    \/ LifeRead(p)
    \/ LifePatch(p)
    \/ ProvGenerate(p)
    \/ ProvGetOrCreate(p)
    \/ ProvProduct(p)
    \/ ProvReturn(p)
    \/ AddResolve(p)
    \/ AddCreate(p)

SpecAll == AllInit /\ [][AllNext]_vars

(* ------------------- a client with three instances ------------------- *)

ScenarioInstances == {"A", "B", "C"}

\* What provision leaves for (customer, acme, max_seats=2).
ScenarioInit ==
  /\ license_keys = {SeedKey}
  /\ licenses = {SeedLicense(2)}
  /\ activations = {}
  /\ IdleInit

\* Activate and deactivate requests for the three instances, one after the
\* other.
ScenarioNext ==
  \/ nreq < MaxScenarioRequests /\ ActivateRequest(1, ScenarioInstances)
  \/ nreq < MaxScenarioRequests /\ DeactivateRequest(1, ScenarioInstances)
  \/ SeatStep(1)

SpecScenario == ScenarioInit /\ [][ScenarioNext]_vars

(* ------------------------------ properties ---------------------------- *)

\* Two finished requests whose executions overlapped.
Concurrent(p, q) == p \in req[q].conc \/ q \in req[p].conc

Idle(p) == pc[p] = "idle"

\* The active Activation rows of a license, and those of one instance.
ActiveRows(lic_id) == {a \in activations : a.license = lic_id /\ a.is_active}
ActiveRowsOf(lic_id, inst) == {a \in ActiveRows(lic_id) : a.instance_id = inst}

\* Thread p has just answered a request of kind op.
Answered(p, op) == Idle(p) /\ req[p].op = op

\* C1: a license with a seat limit never has more active activations than
\* max_seats, under any interleaving of activate and deactivate requests.
\* Stated for the positive limits, where only interleaved requests can
\* break it.
C1_SeatsNeverOversold ==
  \A l \in licenses :
    l.max_seats >= 1 => Cardinality(ActiveRows(l.id)) <= l.max_seats

\* C2: on a license with max_seats = 1 and no active activation, of two
\* concurrent activate requests for different instances exactly one is
\* answered 201 with a new activation and the other 403 seat limit.
C2_SeatRaceHasOneWinner ==
  \A p, q \in Procs :
    ( /\ p # q
      /\ nreq = 2
      /\ Answered(p, "activate") /\ Answered(q, "activate")
      /\ Concurrent(p, q)
      /\ req[p].product_slug = "acme" /\ req[q].product_slug = "acme"
      /\ req[p].instance_id # req[q].instance_id
      /\ \A l \in licenses : l.max_seats = 1 )
    => {resp[p].body, resp[q].body} = {"activated", "seat_limit"}

\* C3: no (license, instance_id) pair has two active activations, also after
\* interleaved activate requests for the same instance.
C3_OneActivePerInstance ==
  \A a, b \in activations :
    ( /\ a.license = b.license
      /\ a.instance_id = b.instance_id
      /\ a.is_active /\ b.is_active )
    => a.id = b.id

\* Two overlapping activate requests for one instance have both inserted:
\* one row was accepted and the other refused by the unique index.
C3_Witness ==
  \E p, q \in Procs :
    /\ p # q
    /\ Answered(p, "activate") /\ Answered(q, "activate")
    /\ Concurrent(p, q)
    /\ req[p].instance_id = req[q].instance_id
    /\ resp[p].body = "activated" /\ resp[q].body = "error"
    /\ Cardinality(ActiveRowsOf(1, req[p].instance_id)) = 1

\* C4: an activate call that repeats the previous, successful activate call of
\* the same (license, instance_id) is answered 200 with the existing active
\* activation; no step of it changes the store, and the pair keeps exactly one
\* active row.
C4_RepeatedActivateIsIdempotent ==
  [][ ( /\ ~Idle(1)
        /\ req[1].op = "activate"
        /\ req[1].repeat )
      => /\ store' = store
         /\ Idle(1)' =>
              /\ resp'[1].code = 200
              /\ resp'[1].body = "already"
              /\ ActiveRowsOf(1, req[1].instance_id)
                   = {a \in activations : a.id = resp'[1].id}
              /\ Cardinality(ActiveRowsOf(1, req[1].instance_id)) = 1 ]_vars

\* The second of two activate calls in a row has been answered.
C4_Witness ==
  /\ Answered(1, "activate")
  /\ req[1].repeat
  /\ resp[1].body = "already"
  /\ Cardinality(activations) = 1

\* C5: a deactivate request for a pair that has an active activation is
\* answered 200 and leaves that activation inactive with deactivated_at set,
\* whatever the earlier history of the pair.  With one thread: once a
\* deactivate call has been answered, the pair has no active activation left,
\* and the answer is 200 (with the row deactivated) or 404 (there was none).
C5_DeactivateOfActiveSucceeds ==
  ( /\ Answered(1, "deactivate")
    /\ LicensesFor(req[1].lk, req[1].product_slug) # {} )
  => /\ \A l \in LicensesFor(req[1].lk, req[1].product_slug) :
          ActiveRowsOf(l.id, req[1].instance_id) = {}
     /\ resp[1].code \in {200, 404}
     /\ resp[1].code = 200 =>
          \E a \in activations :
            /\ a.id = resp[1].id
            /\ ~a.is_active
            /\ a.deactivated_at # NULL

\* C6: a provision call that fails on an entry of its products list leaves
\* in the store no LicenseKey and no License that the call created.
C6_FailedProvisionLeavesNothing ==
  [][ \A p \in Procs :
        ( /\ ~Idle(p)
          /\ Idle(p)'
          /\ req[p].op = "provision"
          /\ resp'[p].code # 201 )
        => /\ \A k \in tx[p].keys : k \notin license_keys'
           /\ \A l \in tx[p].lics : l \notin licenses' ]_vars

\* C7: no (brand, customer_email) pair has two LicenseKeys, under any
\* interleaving of provision calls.  Stated on the calls that succeeded: two
\* provision calls of one brand for one customer that both answered 201
\* returned the same key (keys are never deleted, so two different answers
\* are two LicenseKeys of the pair).
C7_OneKeyPerBrandAndEmail ==
  \A p, q \in Procs :
    ( /\ Answered(p, "provision") /\ resp[p].code = 201
      /\ Answered(q, "provision") /\ resp[q].code = 201
      /\ req[p].brand = req[q].brand
      /\ req[p].customer_email = req[q].customer_email )
    => resp[p].license_key = resp[q].license_key

\* C8: no (license_key, product) pair has two Licenses, under any
\* interleaving of provision and add_product calls; here of add_product
\* calls on a provisioned key.
C8_OneLicensePerKeyAndProduct ==
  \A l1, l2 \in licenses :
    (l1.license_key = l2.license_key /\ l1.product = l2.product)
    => l1.id = l2.id

\* C9: cancelled is terminal: no step of any update_lifecycle request, in
\* any interleaving, takes a License out of status cancelled.
C9_CancelledIsTerminal ==
  [][ \A l \in licenses : \A m \in licenses' :
        (l.id = m.id /\ l.status = CANCELLED) => m.status = CANCELLED ]_vars

\* The License of the lifecycle runs before any request.
LifeSeed == SeedLicense(NULL)

\* The two requests run one after the other, `first` first: the License they
\* leave and the answers they get.
Serial(first, second) ==
  LET r1 == LifeAction(LifeSeed, req[first].action, req[first].expiration_date)
      r2 == LifeAction(r1.lic, req[second].action, req[second].expiration_date)
  IN /\ licenses = {r2.lic}
     /\ (resp[first].code = 200) = r1.ok
     /\ (resp[second].code = 200) = r2.ok

\* C10: two interleaved update_lifecycle requests of the owning brand on one
\* License leave the License, and get the answers, of one of the two serial
\* orders.
C10_LifecycleRequestsSerialize ==
  \A p, q \in Procs :
    ( /\ p # q
      /\ nreq = 2
      /\ Answered(p, "lifecycle") /\ Answered(q, "lifecycle")
      /\ Concurrent(p, q)
      /\ req[p].license_id = LifeSeed.id /\ req[q].license_id = LifeSeed.id
      /\ req[p].brand = "b1" /\ req[q].brand = "b1" )
    => Serial(p, q) \/ Serial(q, p)

(* ----------------------- lifecycle transitions ------------------------ *)

\* The committed License row with primary key id.
LicenseOf(id) == CHOOSE l \in licenses : l.id = id

\* The single client's update_lifecycle request with this action is about to
\* run its transaction on the License it loaded, and the step answers it.
Patches(action) ==
  /\ pc[1] = "life_patch"
  /\ pc'[1] = "idle"
  /\ req[1].action = action

\* The License the request of thread 1 names, before the step.
Target == LicenseOf(req[1].license_id)

\* C11: a renew answered 200 leaves the License with status valid and with
\* the expiration_date of the request, whatever its status was.
C11_RenewLeavesValid ==
  [][ (Patches("renew") /\ resp'[1].code = 200)
      => /\ Target'.status = VALID
         /\ Target'.expiration_date = req[1].expiration_date ]_vars

\* C12: a renew of a cancelled License is refused, and the License keeps its
\* status and its expiration_date.
C12_RenewOfCancelledRefused ==
  [][ (Patches("renew") /\ Target.status = CANCELLED)
      => /\ resp'[1].code # 200
         /\ licenses' = licenses ]_vars

\* C13: suspend of a valid License is answered 200 and leaves it suspended,
\* all else unchanged; suspend of a cancelled License is answered 400 and
\* leaves the store unchanged.
C13_SuspendTransitions ==
  [][ Patches("suspend")
      => /\ Target.status = VALID
              => /\ resp'[1].code = 200
                 /\ licenses' = {[Target EXCEPT !.status = SUSPENDED]}
         /\ Target.status = CANCELLED
              => /\ resp'[1].code = 400
                 /\ licenses' = licenses ]_vars

\* A suspend request on a cancelled License has been refused.
C13_Witness ==
  /\ Answered(1, "lifecycle")
  /\ req[1].action = "suspend"
  /\ resp[1].code = 400
  /\ Target.status = CANCELLED

\* C14: resume of a License that is not suspended is answered 400 and leaves
\* the store unchanged; resume of a suspended License is answered 200 and
\* leaves it valid, all else unchanged.
C14_ResumeTransitions ==
  [][ Patches("resume")
      => /\ Target.status # SUSPENDED
              => /\ resp'[1].code = 400
                 /\ licenses' = licenses
         /\ Target.status = SUSPENDED
              => /\ resp'[1].code = 200
                 /\ licenses' = {[Target EXCEPT !.status = VALID]} ]_vars

\* A resume request on a cancelled License has been refused.
C14_Witness ==
  /\ Answered(1, "lifecycle")
  /\ req[1].action = "resume"
  /\ resp[1].code = 400
  /\ Target.status = CANCELLED

OwnerOf(lic) == (CHOOSE k \in license_keys : k.id = lic.license_key).brand

\* Thread p serves an update_lifecycle request on an existing License that
\* another brand owns, and takes this step.
ForeignStep(p) ==
  /\ pc[p] # "idle"
  /\ pc'[p] # pc[p]
  /\ req[p].op = "lifecycle"
  /\ req[p].license_id \in {l.id : l \in licenses}
  /\ OwnerOf(LicenseOf(req[p].license_id)) # req[p].brand

\* C16: an update_lifecycle request of a brand that does not own the License
\* is answered 403 and none of its steps changes a License, whatever the
\* action and the interleaving; so every step that changes a License is a
\* step of a request of the owning brand.
C16_ForeignBrandForbidden ==
  [][ /\ \A p \in Procs :
           ForeignStep(p)
           => /\ licenses' = licenses
              /\ Idle(p)' => resp'[p].code = 403
      /\ licenses' # licenses
           => \E p \in Procs :
                /\ pc'[p] # pc[p]
                /\ req[p].op = "lifecycle"
                /\ OwnerOf(LicenseOf(req[p].license_id)) = req[p].brand ]_vars

\* A request of brand b2 on the License of brand b1 has been answered 403
\* while a request of b1 on it was in progress.
C16_Witness ==
  \E p, q \in Procs :
    /\ p # q
    /\ Answered(p, "lifecycle")
    /\ req[p].brand = "b2"
    /\ req[p].action = "cancel"
    /\ resp[p].code = 403
    /\ q \in req[p].conc
    /\ \A l \in licenses : l.status # CANCELLED

(* ------------------------ the seat engine's errors -------------------- *)

\* The Licenses the product-API request of thread 1 resolves to.
Resolved == LicensesFor(req[1].lk, req[1].product_slug)

\* A License that is suspended or cancelled, or whose expiration date has
\* passed.
NotValid(l) ==
  \/ l.status \in {SUSPENDED, CANCELLED}
  \/ l.expiration_date # NULL /\ l.expiration_date < now

\* C17: an activate request that finds its License not valid is answered 400
\* (validation error) and creates no Activation, whatever the seats in use.
C17_ActivateNeedsValidLicense ==
  [][ ( /\ pc[1] = "act_resolve"
        /\ pc'[1] # "act_resolve"
        /\ Resolved # {}
        /\ \A l \in Resolved : NotValid(l) )
      => /\ pc'[1] = "idle"
         /\ resp'[1].code = 400
         /\ resp'[1].body = "invalid"
         /\ store' = store ]_vars

\* An activate request has been refused on a License of status valid whose
\* expiration date has passed, while a seat of it was in use.
C17_Witness ==
  /\ Answered(1, "activate")
  /\ resp[1].code = 400
  /\ \E l \in Resolved :
       /\ l.status = VALID
       /\ l.expiration_date # NULL
       /\ l.expiration_date < now
       /\ ActiveRows(l.id) # {}

\* C18: for every max_seats other than None, 0 included, an activate request
\* on a valid License for an instance with no active Activation, made when
\* the active Activations of the License number max_seats or more, is
\* answered 403 (seat limit) and creates no Activation.
C18_SeatLimitForEveryMaxSeats ==
  [][ ( /\ pc[1] # "idle"
        /\ pc'[1] = "idle"
        /\ req[1].op = "activate"
        /\ \E l \in Resolved :
             /\ ~NotValid(l)
             /\ l.max_seats # NULL
             /\ ActiveRowsOf(l.id, req[1].instance_id) = {}
             /\ Cardinality(ActiveRows(l.id)) >= l.max_seats )
      => /\ resp'[1].code = 403
         /\ resp'[1].body = "seat_limit"
         /\ activations' = activations ]_vars

\* C20: a deactivate request for a (license, instance_id) with no active
\* Activation is answered 404, and none of its steps changes the store.
C20_DeactivateOfInactiveNotFound ==
  [][ ( /\ pc[1] # "idle"
        /\ pc'[1] # pc[1]
        /\ req[1].op = "deactivate"
        /\ Resolved # {}
        /\ \A l \in Resolved : ActiveRowsOf(l.id, req[1].instance_id) = {} )
      => /\ store' = store
         /\ pc'[1] = "idle" => resp'[1].code = 404 ]_vars

\* A deactivate request for an instance that was deactivated before has been
\* answered 404.
C20_Witness ==
  /\ Answered(1, "deactivate")
  /\ resp[1].code = 404
  /\ \E l \in Resolved : \E a \in activations :
       /\ a.license = l.id
       /\ a.instance_id = req[1].instance_id
       /\ ~a.is_active
       /\ ActiveRowsOf(l.id, req[1].instance_id) = {}

(* ------------------------ the end-to-end scenario --------------------- *)

\* The store of the scenario: the instances with an active Activation of the
\* provisioned License are `active`, those with an inactive one `inactive`.
Seats(active, inactive) ==
  /\ {a.instance_id : a \in ActiveRows(1)} = active
  /\ {a.instance_id : a \in activations \ ActiveRows(1)} = inactive
  /\ Cardinality(activations) = Cardinality(active) + Cardinality(inactive)

\* The client's request `op` for instance `inst` of product acme is answered
\* by this step.
Answers(op, inst) ==
  /\ pc[1] # "idle"
  /\ pc'[1] = "idle"
  /\ req[1].op = op
  /\ req[1].instance_id = inst
  /\ req[1].product_slug = "acme"

\* The answer of the step: status code and remaining_seats.
Gets(code, remaining) ==
  /\ resp'[1].code = code
  /\ resp'[1].remaining = remaining

\* The six requests of the scenario, each from the store the previous ones
\* leave; `again` is the remaining_seats in the answer to the repeated
\* activate of A.
ScenarioSteps(again) ==
  /\ (Seats({}, {}) /\ Answers("activate", "A"))
       => Gets(201, 1) /\ Seats({"A"}, {})'
  /\ (Seats({"A"}, {}) /\ Answers("activate", "A"))
       => Gets(200, again) /\ activations' = activations
  /\ (Seats({"A"}, {}) /\ Answers("activate", "B"))
       => Gets(201, 0) /\ Seats({"A", "B"}, {})'
  /\ (Seats({"A", "B"}, {}) /\ Answers("activate", "C"))
       => Gets(403, NULL) /\ activations' = activations
  /\ (Seats({"A", "B"}, {}) /\ Answers("deactivate", "A"))
       => Gets(200, 1) /\ Seats({"B"}, {"A"})'
  /\ (Seats({"B"}, {"A"}) /\ Answers("activate", "C"))
       => Gets(201, 0) /\ Seats({"B", "C"}, {"A"})'

\* C19, as the code has it: the scenario holds step by step, the answer to
\* the repeated activate of A being 200 with the existing activation and
\* without a remaining_seats value (one seat of the two stays free).
C19_ScenarioStepByStep == [][ScenarioSteps(NULL)]_vars

\* C19, as stated: the answer to the repeated activate of A reports
\* remaining = 1.
C19_ScenarioAsStated == [][ScenarioSteps(1)]_vars

\* The scenario has run to its end: the sixth request, activate C, has been
\* answered 201 with remaining 0.
C19_Witness ==
  /\ nreq = 6
  /\ Answered(1, "activate")
  /\ req[1].instance_id = "C"
  /\ resp[1].code = 201
  /\ resp[1].remaining = 0
  /\ Seats({"B", "C"}, {"A"})

(* ------------------- product_views.py: check_status ------------------- *)

Max(a, b) == IF a >= b THEN a ELSE b

\* CheckLicenseStatusView.get, lines 158-165: the remaining_seats it reports
\* for a License.
remaining_seats(lic) ==
  IF lic.max_seats # NULL
  THEN Max(0, lic.max_seats - Cardinality(ActiveRows(lic.id)))
  ELSE NULL

\* C21: a deactivate answered 200 on a License with max_seats set lowers the
\* count of its active Activations by exactly 1, and the remaining_seats that
\* check_status reports goes up by exactly 1 and stays at most max_seats.
C21_DeactivateFreesOneSeat ==
  [][ ( /\ pc[1] = "deact_commit"
        /\ pc'[1] = "idle"
        /\ resp'[1].code = 200 )
      => \A l \in Resolved :
           l.max_seats # NULL
           => /\ Cardinality(ActiveRows(l.id)')
                   = Cardinality(ActiveRows(l.id)) - 1
              /\ remaining_seats(l)' = remaining_seats(l) + 1
              /\ remaining_seats(l)' <= l.max_seats ]_vars

(* --------------------------- the audit trail -------------------------- *)

\* C22: no step removes an Activation row: every row of a state is still
\* there after the step, with its license and instance_id, whether the step
\* belongs to an activate or to a deactivate request.
C22_ActivationsOnlyGrow ==
  [][ \A a \in activations : \E b \in activations' :
        /\ b.id = a.id
        /\ b.license = a.license
        /\ b.instance_id = a.instance_id ]_vars

\* A deactivate request has been answered 200 and its row is in the store,
\* inactive and stamped.
C22_Witness ==
  \E p \in Procs :
    /\ Answered(p, "deactivate")
    /\ resp[p].code = 200
    /\ \E a \in activations :
         /\ a.id = resp[p].id
         /\ ~a.is_active
         /\ a.deactivated_at # NULL

(* ------------------------- provisioning, in sequence ------------------ *)

\* The single client's request of kind op is answered by this step.
Returns(op) ==
  /\ pc[1] # "idle"
  /\ pc'[1] = "idle"
  /\ req[1].op = op

\* The committed LicenseKeys of the (brand, customer_email) of the provision
\* request of thread 1.
PairKeys ==
  {k \in license_keys :
     k.brand = req[1].brand /\ k.customer_email = req[1].customer_email}

\* C23: a provision call that follows a successful provision call of the same
\* (brand, customer_email) and succeeds returns the key string of the pair's
\* LicenseKey, which the first call returned, creates no LicenseKey and
\* reports created = false.
C23_SecondProvisionReusesKey ==
  [][ (Returns("provision") /\ req[1].repeat /\ resp'[1].code = 201)
      => /\ license_keys' = license_keys
         /\ Cardinality(PairKeys) = 1
         /\ \A k \in PairKeys : resp'[1].license_key = k.key
         /\ ~resp'[1].created ]_vars

\* The second of two provision calls in a row has been answered 201.
C23_Witness ==
  /\ Answered(1, "provision")
  /\ req[1].repeat
  /\ resp[1].code = 201
  /\ ~resp[1].created
  /\ Cardinality(license_keys) = 1

\* The committed Licenses of key lk_id for the product `slug` names under
\* `brand`.
Entitlements(rows, lk_id, brand, slug) ==
  {l \in rows :
     /\ l.license_key = lk_id
     /\ ProductById(l.product).brand = brand
     /\ ProductById(l.product).slug = slug}

\* C24: a provision call leaves every existing License as it is, whatever
\* values the request carries; when it is answered 201, each product its
\* list names has exactly one License on the resolved key, the one it had if
\* it had one, and the answer returns it, also when a slug is named twice;
\* and a call whose products all have a License on the key is answered 201.
C24_ProvisionKeepsExistingLicense ==
  [][ (Returns("provision") /\ pc[1] = "prov_product")
      => LET lk == loc[1].license_key_obj.id
             entries == {req[1].products_data[i] :
                           i \in DOMAIN req[1].products_data}
         IN /\ licenses \subseteq licenses'
            /\ resp'[1].code = 201
                 => \A e \in entries :
                      LET had == Entitlements(licenses, lk, req[1].brand, e.slug)
                          has == Entitlements(licenses', lk, req[1].brand, e.slug)
                      IN /\ Cardinality(has) = 1
                         /\ had # {} => has = had
                         /\ {l.id : l \in has} \subseteq resp'[1].licenses
            /\ (\A e \in entries :
                  Entitlements(licenses, lk, req[1].brand, e.slug) # {})
                 => resp'[1].code = 201 ]_vars

\* A provision call has met an entry for acme with another max_seats and a
\* malformed date on a key that has a License of acme, and has skipped it.
C24_Witness ==
  /\ pc[1] = "prov_product"
  /\ loc[1].i = 2
  /\ req[1].products_data[1].slug = "acme"
  /\ req[1].products_data[1].expiration_date = DateMalformed
  /\ tx[1].lics = {}
  /\ \E l \in licenses :
       /\ l.license_key = loc[1].license_key_obj.id
       /\ l.product = 1
       /\ l.max_seats = 1
       /\ loc[1].created_licenses = {l.id}

(* ------------------------------ add_product --------------------------- *)

\* Thread p takes this step of an add_product request.
AddStep(p) ==
  /\ pc[p] # "idle"
  /\ pc'[p] # pc[p]
  /\ req[p].op = "add_product"

\* The LicenseKeys with the key string of p's request that p's brand owns.
OwnKeys(p) ==
  {k \in license_keys :
     k.key = req[p].license_key /\ k.brand = req[p].brand}

\* The active Products p's brand sells under the slug of p's request.
OwnProducts(p) ==
  {x \in Product :
     x.brand = req[p].brand /\ x.slug = req[p].product_slug /\ x.is_active}

\* C25: an add_product request that finds a License of its (license_key,
\* product) is answered 400 with the duplicate error (Conflict), and the step
\* leaves the License table as it is.
C25_AddProductConflict ==
  [][ \A p \in Procs :
        ( /\ AddStep(p)
          /\ pc[p] = "add_resolve"
          /\ \E k \in OwnKeys(p), x \in OwnProducts(p), l \in licenses :
               l.license_key = k.id /\ l.product = x.id )
        => /\ pc'[p] = "idle"
           /\ resp'[p].code = 400
           /\ resp'[p].body = "conflict"
           /\ licenses' = licenses ]_vars

\* An add_product request for acme on the key that holds acme has been
\* refused.
C25_Witness ==
  \E p \in Procs :
    /\ Answered(p, "add_product")
    /\ resp[p].body = "conflict"
    /\ req[p].license_key = "K1"
    /\ req[p].product_slug = "acme"
    /\ Cardinality(licenses) = 1

\* C26: an add_product request whose key string names no LicenseKey of the
\* calling brand, or whose slug names no active Product of the calling brand,
\* is answered 404 and creates no License; every License an add_product step
\* creates is on a LicenseKey of the calling brand, for a Product of that
\* brand.
C26_AddProductNotFound ==
  [][ \A p \in Procs :
        AddStep(p)
        => /\ (OwnKeys(p) = {} \/ OwnProducts(p) = {})
                => /\ pc'[p] = "idle"
                   /\ resp'[p].code = 404
                   /\ licenses' = licenses
           /\ \A l \in licenses' \ licenses :
                /\ \E k \in OwnKeys(p) : l.license_key = k.id
                /\ \E x \in OwnProducts(p) : l.product = x.id ]_vars

\* Brand b2 has asked for a product on the key of brand b1 and has been
\* answered 404.
C26_Witness ==
  \E p \in Procs :
    /\ Answered(p, "add_product")
    /\ resp[p].code = 404
    /\ req[p].brand = "b2"
    /\ req[p].license_key = "K1"

(* ------------------------ provision: products ------------------------- *)

\* The Products a brand may license under a slug.
Sellable(brand, slug) ==
  {x \in Product : x.brand = brand /\ x.slug = slug /\ x.is_active}

\* C27: a provision call that comes to an entry whose slug names no active
\* Product of the calling brand is answered 404 at that entry; every License
\* a provision step creates is for an active Product of the calling brand;
\* and every License's product belongs to the brand of its LicenseKey.
C27_ProvisionOnlyOwnActiveProducts ==
  /\ [][ pc[1] = "prov_product"
         => /\ ( /\ loc[1].i <= Len(req[1].products_data)
                 /\ Sellable(req[1].brand,
                             req[1].products_data[loc[1].i].slug) = {} )
                 => (pc'[1] = "idle" /\ resp'[1].code = 404)
            /\ \A l \in licenses' \ licenses :
                 /\ ProductById(l.product).brand = req[1].brand
                 /\ ProductById(l.product).is_active ]_vars
  /\ [](\A l \in licenses, k \in license_keys :
          k.id = l.license_key => ProductById(l.product).brand = k.brand)

\* Brand b2 has asked for addon, which only b1 sells, and has been answered
\* 404, while Licenses of brand b1 are in the store.
C27_Witness ==
  /\ Answered(1, "provision")
  /\ resp[1].code = 404
  /\ req[1].brand = "b2"
  /\ licenses # {}

(* ------------------------- provision: the key ------------------------- *)

\* C28: no two LicenseKeys have the same key string, and no step changes or
\* removes a LicenseKey row.
C28_KeyUniqueAndImmutable ==
  /\ [](\A k1 \in license_keys, k2 \in license_keys :
          k1.key = k2.key => k1 = k2)
  /\ [][ \A k \in license_keys : k \in license_keys' ]_vars

\* Two provision calls in flight drew the same key: one has inserted its
\* row, the other waits at the unique index.
C28_Witness ==
  \E p \in Procs, q \in Procs :
    /\ p # q
    /\ pc[p] = "prov_get_or_create"
    /\ \E k \in tx[q].keys : k.key = loc[p].key
    /\ KeysOf(p, req[p].brand, req[p].customer_email) = {}

\* The attempts of `draws` whose candidate no LicenseKey has.
FreeAttempts(draws) ==
  {i \in DOMAIN draws : \A k \in license_keys : k.key # draws[i]}

Least(S) == CHOOSE i \in S : \A j \in S : i <= j

\* C29: for every store reached and every sequence of candidates, key
\* creation makes at most 10 attempts and returns the first candidate that no
\* LicenseKey has, stopping there; when all 10 candidates are taken it raises,
\* and the provision call then answers 500 with no LicenseKey and no License
\* written.
C29_KeyCreationBounded ==
  /\ [](\A draws \in KeyDraws :
          /\ Len(draws) = 10
          /\ AttemptsFrom(draws, 1) <= 10
          /\ IF FreeAttempts(draws) # {}
             THEN /\ _generate_unique_key(draws) = draws[Least(FreeAttempts(draws))]
                  /\ AttemptsFrom(draws, 1) = Least(FreeAttempts(draws))
             ELSE /\ _generate_unique_key(draws) = ""
                  /\ AttemptsFrom(draws, 1) = 10)
  /\ [][ pc[1] = "prov_generate"
         => /\ pc'[1] \in {"idle", "prov_get_or_create"}
            /\ pc'[1] = "idle"
                 => /\ resp'[1].code = 500
                    /\ \E draws \in KeyDraws : FreeAttempts(draws) = {}
                    /\ store' = store
                    /\ tx'[1] = NoTx
            /\ pc'[1] = "prov_get_or_create"
                 => /\ ~KeyExists(loc'[1].key)
                    /\ loc'[1].key \in KeySpace
            /\ (\A key \in KeySpace : KeyExists(key)) => pc'[1] = "idle" ]_vars

\* A provision call drew ten taken candidates while another key was free,
\* and has been answered 500.
C29_Witness ==
  /\ Answered(1, "provision")
  /\ resp[1].code = 500
  /\ \E key \in KeySpace : ~KeyExists(key)
  /\ license_keys # {}

(* ------------------------------ is_valid ------------------------------ *)

\* The expiration dates a License is tried with: none, and every instant of
\* the clock.
ExpirationDates == {NULL} \cup 0..MaxTime

\* C30: at every instant, for each status and each expiration date (none,
\* before now, now, after now), is_valid is true exactly when the status is
\* valid and the date is none or not before now.
C30_IsValidTable ==
  \A status \in LicenseStatus, expiration_date \in ExpirationDates :
    is_valid([status |-> status, expiration_date |-> expiration_date])
      = ( /\ status = VALID
          /\ (expiration_date = NULL \/ ~(expiration_date < now)) )

\* A seat has been granted on a License that expires at this very instant,
\* with instants before and after it on the clock.
C30_Witness ==
  /\ Answered(1, "activate")
  /\ resp[1].code = 201
  /\ 0 < now
  /\ now < MaxTime
  /\ \E l \in licenses :
       /\ l.status = VALID
       /\ l.expiration_date = now
       /\ \E a \in activations : a.license = l.id /\ a.is_active

(* --------------------------- the two views ---------------------------- *)

\* The seat figures of a report.
SeatFigures(report) ==
  {[license |-> e.license, active_seats |-> e.active_seats,
    remaining_seats |-> e.remaining_seats] : e \in report}

\* The seat figures of the Licenses `rows` in this state, as check_status
\* is to compute them.
FiguresOf(rows) ==
  {[license |-> l.id, active_seats |-> Cardinality(ActiveRows(l.id)),
    remaining_seats |-> remaining_seats(l)] : l \in rows}

\* C31: check_status answers with one entry for each License of the key and
\* for no other, each with the count of the License's active Activations and
\* max(0, max_seats - count), or null when max_seats is null; no step of it
\* changes the store.
C31_CheckStatusReport ==
  [][ pc[1] \in {"check_list", "check_count"}
      => /\ store' = store
         /\ pc'[1] = "idle"
              => /\ resp'[1].code = 200
                 /\ SeatFigures(resp'[1].report)
                      = FiguresOf({l \in licenses : l.license_key = req[1].lk})
                 /\ Cardinality(resp'[1].report)
                      = Cardinality({l \in licenses : l.license_key = req[1].lk}) ]_vars

\* The status of a key with two Licenses has been reported, one of them with
\* max_seats = 0 and a seat in use.
C31_Witness ==
  /\ Answered(1, "check_status")
  /\ resp[1].code = 200
  /\ Cardinality(resp[1].report) = 2
  /\ \E e \in resp[1].report :
       e.max_seats = 0 /\ e.active_seats = 1 /\ e.remaining_seats = 0

\* C32: list_by_email with an empty email answers 400; otherwise it answers
\* with one entry for every License of every LicenseKey of that email,
\* whatever the brand, with the seat figures check_status computes for the
\* License in the same state; no step of it changes the store.
C32_ListMatchesCheckStatus ==
  [][ pc[1] \in {"list_keys", "list_fetch", "list_count"}
      => /\ store' = store
         /\ pc'[1] = "idle"
              => IF req[1].email = ""
                 THEN resp'[1].code = 400
                 ELSE /\ resp'[1].code = 200
                      /\ SeatFigures(resp'[1].report)
                           = FiguresOf({l \in licenses :
                                \E k \in license_keys :
                                  /\ k.id = l.license_key
                                  /\ k.customer_email = req[1].email}) ]_vars

(* ------------------------- who writes what ---------------------------- *)

\* Thread p takes this step.
Steps(p) == <<pc[p], loc[p], tx[p], req[p]>>' # <<pc[p], loc[p], tx[p], req[p]>>

\* The operation of the request thread p is serving in this step.
OpOf(p) == IF pc[p] = "idle" THEN req'[p].op ELSE req[p].op

\* C33: a step of a handler other than update_lifecycle leaves every License
\* in the store as it is, and a step of a handler other than activate and
\* deactivate leaves the Activation rows as they are.
C33_WritersOfLicenseAndActivation ==
  [][ \A p \in Procs :
        Steps(p)
        => /\ OpOf(p) # "lifecycle" => \A l \in licenses : l \in licenses'
           /\ OpOf(p) \notin {"activate", "deactivate"}
                => activations' = activations ]_vars

\* A provision call for the key that holds a License has been answered 201
\* while an instance is active on that License.
C33_Witness ==
  \E p \in Procs :
    /\ Answered(p, "provision")
    /\ resp[p].code = 201
    /\ SeedLicense(1) \in licenses
    /\ \E a \in activations : a.license = 1 /\ a.is_active

(* --------------------- activate against the lifecycle ----------------- *)

\* The Activation rows this step creates.
Created == {a \in activations' : a.id \notin {b.id : b \in activations}}

\* C34: every Activation is created for a License whose status in the store
\* is neither suspended nor cancelled at that step.
C34_NoSeatOnStoppedLicense ==
  [][ \A a \in Created : \A l \in licenses :
        l.id = a.license => l.status \notin {SUSPENDED, CANCELLED} ]_vars

(* ------------------- two requests for one instance -------------------- *)

\* Threads p and q have answered overlapping requests of kind op for the
\* same key, product and instance.
SameSeatRace(p, q, op) ==
  /\ p # q
  /\ Answered(p, op) /\ Answered(q, op)
  /\ Concurrent(p, q)
  /\ req[p].lk = req[q].lk
  /\ req[p].product_slug = req[q].product_slug
  /\ req[p].instance_id = req[q].instance_id

\* C35: when the only two requests so far are overlapping activate requests
\* for one instance on the valid seed License with a free seat, both are
\* answered 200 or 201, and the instance has exactly one Activation row.
C35_SameInstanceRaceSucceeds ==
  \A p, q \in Procs :
    ( /\ SameSeatRace(p, q, "activate")
      /\ nreq = 2
      /\ req[p].product_slug = "acme"
      /\ \A l \in licenses : l.max_seats # 0 )
    => /\ resp[p].code \in {200, 201}
       /\ resp[q].code \in {200, 201}
       /\ Cardinality({a \in activations :
                         a.instance_id = req[p].instance_id}) = 1

\* C36: of two overlapping deactivate requests for one instance that follow
\* its activation, one is answered 200 and the other 404; and no two
\* deactivate requests are answered 200 for the same Activation.
C36_DeactivateRaceHasOneWinner ==
  \A p, q \in Procs :
    /\ ( /\ SameSeatRace(p, q, "deactivate")
         /\ nreq = 3
         /\ \E a \in activations, l \in licenses :
              /\ a.license = l.id
              /\ a.instance_id = req[p].instance_id
              /\ l.license_key = req[p].lk
              /\ ProductById(l.product).slug = req[p].product_slug )
       => {resp[p].code, resp[q].code} = {200, 404}
    /\ ( /\ p # q
         /\ Answered(p, "deactivate") /\ Answered(q, "deactivate")
         /\ resp[p].code = 200 /\ resp[q].code = 200 )
       => resp[p].id # resp[q].id

(* ----------------------- the range of remaining_seats ----------------- *)

\* C37: the remaining_seats of every activate answered 201 and of every
\* deactivate answered 200, on a License whose max_seats is not null, is a
\* number from 0 to max_seats.
C37_RemainingSeatsInRange ==
  \A p \in Procs :
    ( /\ Idle(p)
      /\ req[p].op \in {"activate", "deactivate"}
      /\ resp[p].body \in {"activated", "deactivated"} )
    => \A l \in LicensesFor(req[p].lk, req[p].product_slug) :
         l.max_seats # NULL
           => /\ resp[p].remaining # NULL
              /\ 0 <= resp[p].remaining
              /\ resp[p].remaining <= l.max_seats

(* -------------------- provision: reuse and generation ----------------- *)

\* C38: a provision call that repeats a successful one, so that its (brand,
\* customer_email) has a LicenseKey, does not fail at key generation,
\* whatever candidates are drawn.
C38_ReuseNeedsNoGeneration ==
  [][ (pc[1] = "prov_generate" /\ req[1].repeat /\ PairKeys # {})
      => pc'[1] = "prov_get_or_create" ]_vars

(* -------------------- lifecycle and the activations ------------------- *)

\* The number of active Activations of each License in the store.
ActiveSeats == [l \in {x.id : x \in licenses} |-> Cardinality(ActiveRows(l))]

\* C39: every step of an update_lifecycle request, whatever its action and
\* its answer, leaves the Activation rows as they are, and with them the
\* active-seat count of every License.
C39_LifecycleKeepsActivations ==
  [][ \A p \in Procs :
        (Steps(p) /\ OpOf(p) = "lifecycle")
        => /\ activations' = activations
           /\ \A l \in DOMAIN ActiveSeats :
                l \in DOMAIN ActiveSeats' /\ ActiveSeats'[l] = ActiveSeats[l] ]_vars

\* A License with an active instance has been suspended or cancelled, and
\* the instance is still active.
C39_Witness ==
  \E p \in Procs :
    /\ Answered(p, "lifecycle")
    /\ resp[p].code = 200
    /\ req[p].action \in {"suspend", "cancel"}
    /\ \E l \in licenses :
         /\ l.id = resp[p].id
         /\ l.status \in {SUSPENDED, CANCELLED}
         /\ ActiveRows(l.id) # {}

(* ------------------------ the life of an Activation ------------------- *)

\* C40: an Activation has deactivated_at set exactly when it is inactive; an
\* inactive Activation stays inactive; and a row that becomes active in a
\* step is a new row.
C40_ActivationLife ==
  /\ [](\A a \in activations : (a.deactivated_at # NULL) <=> ~a.is_active)
  /\ [][ /\ \A a \in activations : \A b \in activations' :
              (b.id = a.id /\ ~a.is_active) => ~b.is_active
         /\ \A b \in activations' :
              b.is_active => (b \in activations \/ b \in Created) ]_vars

\* An instance was deactivated and activated again: its old row is inactive
\* and stamped, and a second row is active.
C40_Witness ==
  \E a \in activations, b \in activations :
    /\ a.license = b.license
    /\ a.instance_id = b.instance_id
    /\ a.id # b.id
    /\ ~a.is_active /\ a.deactivated_at # NULL
    /\ b.is_active /\ b.deactivated_at = NULL

====
